---- MODULE Spec2Model ----
(***************************************************************************)
(* A model of subtract (src/src/subtract/main.py): redaction of subtitle   *)
(* text by wordlist and at random, the sidecar cache of extracted tracks,  *)
(* the merge of per-language tracks, and the launch of the player.         *)
(*                                                                         *)
(* A text is a sequence of one-character strings.  A track is a sequence   *)
(* of events, each a record [start, text].                                 *)
(***************************************************************************)
EXTENDS Bags, FiniteSets, Integers, Sequences, TLC

\* ------------------------------------------------------------- bounds

\* Longest event text the redaction specification draws.
MaxLen == 4
\* Longest wordlist entry, and most entries of a wordlist.
MaxWordLen == 2
MaxWords == 2
\* Most language codes of one merge command.
MaxLangs == 2
\* Command invocations in one behaviour.
MaxRuns == 3

\* ------------------------------------------------------- characters

\* The characters event texts are drawn from: a letter in both cases, the
\* apostrophe, the backslash, the blank, a regex metacharacter, the braces.
Chars == {"a", "A", "'", "\\", " ", "+", "{", "}"}

\* The characters wordlist entries are drawn from.
EntryChars == {"a", "+"}

\* \w of Python's re on str: letters, digits and the underscore.
IsWordChar(c) == c \in {"a", "A", "N", "_"}

\* [\w'] of the random replacer's pattern.
IsTokenChar(c) == IsWordChar(c) \/ c = "'"

\* re.IGNORECASE compares characters by their lower case.
Lower(c) == IF c = "A" THEN "a" ELSE c

TextsUpTo(n) == UNION {[1..k -> Chars] : k \in 0..n}

EntriesUpTo(n) == UNION {[1..k -> EntryChars] : k \in 0..n}

WordListsUpTo(n) == UNION {[1..k -> EntriesUpTo(MaxWordLen)] : k \in 0..n}

\* "_" * n
Underscores(n) == [k \in 1..n |-> "_"]

\* ------------------------------------------------------ regex pieces

\* Whether index p of text t holds a \w character (FALSE off either end).
WordAt(t, p) == p >= 1 /\ p <= Len(t) /\ IsWordChar(t[p])

\* \b just before index p: exactly one of the two neighbours is a \w.
Boundary(t, p) == WordAt(t, p - 1) # WordAt(t, p)

\* The escaped entry w, taken literally and ignoring case, at index p of t.
MatchesAt(t, w, p) ==
    /\ p + Len(w) - 1 <= Len(t)
    /\ \A k \in 1..Len(w) : Lower(t[p + k - 1]) = Lower(w[k])

\* "|".join(map(re.escape, words)): an empty list joins to the empty
\* pattern, which is one empty alternative.
Alternatives(words) == IF words = <<>> THEN << <<>> >> ELSE words

\* Whether \b(alts[k])\b matches at p; mustAdvance refuses an empty match.
AltMatches(t, alts, k, p, mustAdvance) ==
    /\ Boundary(t, p)
    /\ MatchesAt(t, alts[k], p)
    /\ Boundary(t, p + Len(alts[k]))
    /\ (mustAdvance => Len(alts[k]) > 0)

\* The first alternative, in wordlist order, that matches at p; 0 if none.
FirstAlt(t, alts, p, mustAdvance) ==
    LET ks == {k \in 1..Len(alts) : AltMatches(t, alts, k, p, mustAdvance)}
    IN  IF ks = {} THEN 0 ELSE CHOOSE k \in ks : \A j \in ks : k <= j

\* pat.sub(repl, text) from index p on.  An empty match is replaced by the
\* empty string and the search goes on at p for a non-empty match.
RECURSIVE PatSub(_, _, _, _)
PatSub(t, alts, p, mustAdvance) ==
    IF p > Len(t) + 1 THEN <<>>
    ELSE LET k == FirstAlt(t, alts, p, mustAdvance)
         IN  IF k = 0
             THEN IF p > Len(t) THEN <<>>
                  ELSE <<t[p]>> \o PatSub(t, alts, p + 1, FALSE)
             ELSE IF Len(alts[k]) = 0
                  THEN PatSub(t, alts, p, TRUE)
                  ELSE Underscores(Len(alts[k]))
                         \o PatSub(t, alts, p + Len(alts[k]), FALSE)

should_replace(text) == ~(Len(text) >= 1 /\ text[1] = "{")

make_replacer(words, text) ==
    IF should_replace(text)
    THEN PatSub(text, Alternatives(words), 1, FALSE)
    ELSE text

\* ------------------------------------------- the random replacer

\* Length of the run of [\w'] characters that starts at index s.
RECURSIVE RunLen(_, _)
RunLen(t, s) ==
    IF s <= Len(t) /\ IsTokenChar(t[s]) THEN 1 + RunLen(t, s + 1) ELSE 0

\* ([\w']+)\b from s: the longest length the greedy group can keep.
TokenLen(t, s) ==
    LET ns == {n \in 1..RunLen(t, s) : Boundary(t, s + n)}
    IN  IF ns = {} THEN 0 ELSE CHOOSE n \in ns : \A m \in ns : m <= n

\* \b(\\\w)?([\w']+)\b at p: <<length of group 1, length of group 2>>, or
\* <<0, 0>> when there is no match.  Group 1 is tried first, then skipped.
RandMatch(t, p) ==
    IF ~Boundary(t, p) THEN <<0, 0>>
    ELSE IF /\ p + 1 <= Len(t)
            /\ t[p] = "\\"
            /\ IsWordChar(t[p + 1])
            /\ TokenLen(t, p + 2) > 0
         THEN <<2, TokenLen(t, p + 2)>>
         ELSE <<0, TokenLen(t, p)>>

\* How many matches pat.sub finds in t from p on: one draw is made for each.
RECURSIVE NumMatches(_, _)
NumMatches(t, p) ==
    IF p > Len(t) THEN 0
    ELSE LET m == RandMatch(t, p)
         IN  IF m[2] = 0 THEN NumMatches(t, p + 1)
             ELSE 1 + NumMatches(t, p + m[1] + m[2])

\* random.random() > keep_ratio, both in hundredths.
Dropped(draw, keepPct) == draw > keepPct

\* pat.sub(repl, text) from p on; draws[d] is the next value of random().
RECURSIVE RandSub(_, _, _, _, _)
RandSub(t, keepPct, draws, p, d) ==
    IF p > Len(t) THEN <<>>
    ELSE LET m == RandMatch(t, p)
         IN  IF m[2] = 0
             THEN <<t[p]>> \o RandSub(t, keepPct, draws, p + 1, d)
             ELSE LET newline == SubSeq(t, p, p + m[1] - 1)
                      word == SubSeq(t, p + m[1], p + m[1] + m[2] - 1)
                  IN  newline
                        \o (IF Dropped(draws[d], keepPct)
                            THEN Underscores(Len(word)) ELSE word)
                        \o RandSub(t, keepPct, draws, p + m[1] + m[2], d + 1)

make_random_replacer(keepPct, draws, text) ==
    IF should_replace(text) THEN RandSub(text, keepPct, draws, 1, 1) ELSE text

\* ------------------------------------------------------------ tracks

\* An event of a track in memory: its start in milliseconds and its text.
Event(start, text) == [start |-> start, text |-> text]

\* SSAFile.to_string / save in the SubStation format: a Dialogue line per
\* event, its time written in centiseconds.
SsaWrite(track) ==
    [i \in DOMAIN track |->
        [start_cs |-> track[i].start \div 10, text |-> track[i].text]]

\* SSAFile.from_string / load: the Dialogue lines back to events.
SsaRead(lines) ==
    [i \in DOMAIN lines |-> Event(lines[i].start_cs * 10, lines[i].text)]

\* event.plaintext = value: the setter stores value.replace("\n", r"\N").
RECURSIVE PlaintextSet(_)
PlaintextSet(value) ==
    IF value = <<>> THEN <<>>
    ELSE (IF Head(value) = "\n" THEN <<"\\", "N">> ELSE <<Head(value)>>)
           \o PlaintextSet(Tail(value))

\* A faulty clone_subs: the object itself is returned, not a copy.
clone_subs_alias(h, id) == [heap |-> h, id |-> id]

\* clone_subs on the heap h of track objects: a new object parsed from the
\* serialisation of object id.
clone_subs(h, id) ==
    [heap |-> Append(h, SsaRead(SsaWrite(h[id]))), id |-> Len(h) + 1]

\* drop_words: every event of a clone gets replacer(event.text).
drop_words(h, id, words) ==
    LET c == clone_subs(h, id)
        redact(ev) ==
            [ev EXCEPT !.text = PlaintextSet(make_replacer(words, ev.text))]
    IN  [heap |-> [c.heap EXCEPT ![c.id] =
                      [i \in DOMAIN c.heap[c.id] |-> redact(c.heap[c.id][i])]],
         id |-> c.id]

\* The draws the events of a track consume, in event order.
RECURSIVE TotalMatches(_)
TotalMatches(events) ==
    IF events = <<>> THEN 0
    ELSE (IF should_replace(Head(events).text)
          THEN NumMatches(Head(events).text, 1) ELSE 0)
           + TotalMatches(Tail(events))

\* The loop of drop_random_words over events: event i consumes the draws
\* that follow those of the events before it.
RECURSIVE RandomEvents(_, _, _)
RandomEvents(events, keepPct, draws) ==
    IF events = <<>> THEN <<>>
    ELSE LET ev == Head(events)
             n == TotalMatches(<<ev>>)
         IN  <<[ev EXCEPT !.text =
                   PlaintextSet(make_random_replacer(keepPct, draws, ev.text))]>>
               \o RandomEvents(Tail(events), keepPct,
                               SubSeq(draws, n + 1, Len(draws)))

drop_random_words(h, id, keepPct, draws) ==
    LET c == clone_subs(h, id)
    IN  [heap |-> [c.heap EXCEPT ![c.id] =
                      RandomEvents(c.heap[c.id], keepPct, draws)],
         id |-> c.id]

\* ----------------------------------------------------------- the video

\* The video whose subtitles are played: its path without and with suffix.
Video == [stem |-> "movie", suffix |-> ".mp4"]

\* Path.with_suffix: the last suffix of the path replaced.
with_suffix(video, suffix) == video.stem \o suffix

\* The language codes a merge command may name (letters only: no code
\* holds the "_" that joins the codes of a merge sidecar).
Langs == {"eng", "fre"}

\* language=None of get_subs(video): `if language` takes the else branch.
NoLang == ""

\* The subtitle streams embedded in the video, as the extraction facility
\* writes them (SubStation lines, times in centiseconds); the English one,
\* which is also the one extracted when no language is named, is not in
\* time order.  The two streams share a start time.
Embedded(language) ==
    IF language = "fre"
    THEN <<[start_cs |-> 1, text |-> <<"A">>],
           [start_cs |-> 3, text |-> <<"'", "a">>]>>
    ELSE <<[start_cs |-> 2, text |-> <<"a", " ", "+">>],
           [start_cs |-> 1, text |-> <<"{", "a", "}", "a">>]>>

\* extract_subs: the facility's output parsed into a track, or its failure.
extract_subs(video, language, ok) ==
    [raised |-> ~ok,
     track |-> IF ok THEN SsaRead(Embedded(language)) ELSE <<>>]

\* The sidecar path of get_subs.
SubsPath(video, language) ==
    with_suffix(video, IF language # NoLang
                       THEN "." \o language \o ".ssa" ELSE ".ssa")

\* '_'.join(languages)
RECURSIVE Join(_)
Join(languages) ==
    IF languages = <<>> THEN ""
    ELSE IF Len(languages) = 1 THEN languages[1]
    ELSE languages[1] \o "_" \o Join(Tail(languages))

\* A faulty merge path: the sidecar of the first language.
MergePathFirst(video, languages) == SubsPath(video, languages[1])

\* The sidecar path of merge_subs.
MergePath(video, languages) ==
    with_suffix(video, "." \o Join(languages) \o ".ssa")

\* subs.save(path) on the sidecar files f.
Save(f, path, track) ==
    [q \in DOMAIN f \cup {path} |-> IF q = path THEN SsaWrite(track) ELSE f[q]]

\* A faulty get_subs: the sidecar is not looked for.
get_subs_nocache(f, video, language, ok) ==
    LET x == extract_subs(video, language, ok)
    IN  IF x.raised
        THEN [fs |-> f, track |-> <<>>, raised |-> TRUE,
              extracted |-> TRUE, wrote |-> FALSE]
        ELSE [fs |-> Save(f, SubsPath(video, language), x.track),
              track |-> x.track, raised |-> FALSE,
              extracted |-> TRUE, wrote |-> TRUE]

\* A faulty get_subs: the sidecar is written before the failure is raised.
get_subs_touch(f, video, language, ok) ==
    LET path == SubsPath(video, language)
    IN  IF path \in DOMAIN f
        THEN [fs |-> f, track |-> SsaRead(f[path]), raised |-> FALSE,
              extracted |-> FALSE, wrote |-> FALSE]
        ELSE LET x == extract_subs(video, language, ok)
             IN  [fs |-> Save(f, path, x.track), track |-> x.track,
                  raised |-> x.raised, extracted |-> TRUE, wrote |-> TRUE]

\* get_subs on the sidecar files f; ok is whether an extraction, if one is
\* made, succeeds.  The result: the files after, the track, whether the
\* failure was raised, whether the facility was invoked, whether f changed.
get_subs(f, video, language, ok) ==
    LET path == SubsPath(video, language)
    IN  IF path \in DOMAIN f
        THEN [fs |-> f, track |-> SsaRead(f[path]), raised |-> FALSE,
              extracted |-> FALSE, wrote |-> FALSE]
        ELSE LET x == extract_subs(video, language, ok)
             IN  IF x.raised
                 THEN [fs |-> f, track |-> <<>>, raised |-> TRUE,
                       extracted |-> TRUE, wrote |-> FALSE]
                 ELSE [fs |-> Save(f, path, x.track), track |-> x.track,
                       raised |-> FALSE, extracted |-> TRUE, wrote |-> TRUE]

\* A faulty check: the merge sidecar is never found.
MergeCacheMiss(f, video, languages) == FALSE

\* Whether merge_subs finds its sidecar and returns it.
MergeCacheHit(f, video, languages) == MergePath(video, languages) \in DOMAIN f

\* list.sort on events, which compare by start time: a stable insertion.
RECURSIVE Insert(_, _)
Insert(sorted, ev) ==
    IF sorted = <<>> THEN <<ev>>
    ELSE IF sorted[Len(sorted)].start <= ev.start THEN Append(sorted, ev)
    ELSE Append(Insert(SubSeq(sorted, 1, Len(sorted) - 1), ev),
                sorted[Len(sorted)])

RECURSIVE SortFrom(_, _)
SortFrom(sorted, rest) ==
    IF rest = <<>> THEN sorted
    ELSE SortFrom(Insert(sorted, Head(rest)), Tail(rest))

\* A faulty merge: the events are left as they were concatenated.
Unsorted(events) == events

\* merged_subs.sort()
Sort(events) == SortFrom(<<>>, events)

\* merged_subs.events.extend(subs.events) for every other track, in order.
RECURSIVE Extend(_, _, _)
Extend(h, ids, k) ==
    IF k = 1 THEN h[ids[1]] ELSE Extend(h, ids, k - 1) \o h[ids[k]]

\* A faulty launch, by subprocess.call: the exit code is not looked at.
call_unchecked(code) == "none"

\* subprocess.check_call: the exception a player's exit code raises.
check_call(code) == IF code # 0 THEN "CalledProcessError" ELSE "none"

\* TemporaryDirectory.__exit__: the directory and what it holds are removed.
TemporaryDirectoryExit(t, raised) == [dir |-> FALSE, file |-> <<>>]

\* ------------------------------------------------------------- state

VARIABLES
    fs,          \* the sidecar files beside the video: path -> SubStation lines
    tmp,         \* the temporary directory of play_with_subs and its file
    heap,        \* the track objects of the running command
    pc,          \* where the running command stands
    cmd,         \* the command line of the running (or last) command
    subs,        \* the object the command's variable subs refers to
    many_subs,   \* merge_subs: the objects fetched so far
    raised,      \* the exception on its way out of play_with_subs
    outcome,     \* how the last command ended
    runs,        \* commands started so far
    fsAtStart,   \* the sidecar paths present when the command started
    fetched,     \* the tracks get_subs returned, as they were returned
    extractLog,  \* the command's invocations of the extraction facility
    writeLog,    \* the command's sidecar writes
    returned,    \* <<track>> once merge_subs has returned it
    mergeHist,   \* per language list: merge_subs' first result and its calls
    playerExit,  \* the exit codes of the players the command launched
    played,      \* <<lines>> once the player has shown the subtitle file
    call,        \* redaction alone: the call made
    subsIn,      \* redaction alone: the track passed
    subsOut      \* redaction alone: the track returned

vars == <<fs, tmp, heap, pc, cmd, subs, many_subs, raised, outcome, runs,
          fsAtStart, fetched, extractLog, writeLog, returned, mergeHist,
          playerExit, played, call, subsIn, subsOut>>

cmdVars == <<fs, tmp, heap, pc, cmd, subs, many_subs, raised, outcome, runs,
             fsAtStart, fetched, extractLog, writeLog, returned, mergeHist,
             playerExit, played>>

redactVars == <<call, subsIn, subsOut>>

\* The wordlists (the lines of the file) a drop command may be given, and
\* the drop rates; 0 stands for an option left out (`if drop_rate`).
CmdWordLists == {<< <<"a">> >>}
DropRates == {0, 50, 100}

\* The values random.random() returns, in hundredths: 0.0 <= x < 1.0.
RandVals == {0, 50, 99}

\* The keep ratios the redaction is called with, in hundredths.
KeepPcts == {0, 50, 100}

\* The exit codes of the player.
ExitCodes == {0, 1}

LangLists == UNION {[1..k -> Langs] : k \in 1..MaxLangs}

NoCommand ==
    [name |-> "none", has_wordlist |-> FALSE, words |-> <<>>,
     drop_rate |-> 0, languages |-> <<>>]

NoCall == [op |-> "none", words |-> <<>>, keepPct |-> 0, draws |-> <<>>]

Init ==
    /\ fs = <<>>
    /\ tmp = [dir |-> FALSE, file |-> <<>>]
    /\ heap = <<>>
    /\ pc = "idle"
    /\ cmd = NoCommand
    /\ subs = 0
    /\ many_subs = <<>>
    /\ raised = "none"
    /\ outcome = "none"
    /\ runs = 0
    /\ fsAtStart = {}
    /\ fetched = <<>>
    /\ extractLog = <<>>
    /\ writeLog = <<>>
    /\ returned = <<>>
    /\ mergeHist = <<>>
    /\ playerExit = <<>>
    /\ played = <<>>
    /\ call = NoCall
    /\ subsIn = <<>>
    /\ subsOut = <<>>

\* A command starts in a fresh process: no objects, nothing logged.
Begin(command, at) ==
    /\ pc = "idle"
    /\ runs < MaxRuns
    /\ runs' = runs + 1
    /\ cmd' = command
    /\ pc' = at
    /\ heap' = <<>>
    /\ subs' = 0
    /\ many_subs' = <<>>
    /\ raised' = "none"
    /\ outcome' = "running"
    /\ fsAtStart' = DOMAIN fs
    /\ fetched' = <<>>
    /\ extractLog' = <<>>
    /\ writeLog' = <<>>
    /\ returned' = <<>>
    /\ playerExit' = <<>>
    /\ played' = <<>>
    /\ UNCHANGED <<fs, tmp, mergeHist>>

\* The effect of one get_subs call r for language on the command's state;
\* a raised failure ends the command.
Fetch(r, language) ==
    /\ fs' = r.fs
    /\ extractLog' = IF r.extracted
                     THEN Append(extractLog, [lang |-> language, ok |-> ~r.raised])
                     ELSE extractLog
    /\ writeLog' = IF r.wrote
                   THEN Append(writeLog, [path |-> SubsPath(Video, language),
                                          by |-> "get_subs"])
                   ELSE writeLog
    /\ IF r.raised
       THEN /\ outcome' = "ExtractionFailure"
            /\ UNCHANGED <<heap, fetched>>
       ELSE /\ heap' = Append(heap, r.track)
            /\ fetched' = Append(fetched, r.track)
            /\ UNCHANGED outcome

\* ------------------------------------------------------ the drop command

\* drop is invoked: with or without a wordlist, with or without a rate.
DropStart ==
    /\ \E hw \in BOOLEAN, words \in CmdWordLists, rate \in DropRates :
          Begin([name |-> "drop", has_wordlist |-> hw,
                 words |-> IF hw THEN words ELSE <<>>,
                 drop_rate |-> rate, languages |-> <<>>], "drop_get_subs")
    /\ UNCHANGED redactVars

\* subs = get_subs(video)
DropGetSubs ==
    /\ pc = "drop_get_subs"
    /\ \E ok \in BOOLEAN :
          LET r == get_subs(fs, Video, NoLang, ok)
          IN  /\ Fetch(r, NoLang)
              /\ subs' = IF r.raised THEN subs ELSE Len(heap) + 1
              /\ pc' = IF r.raised THEN "idle" ELSE "drop_words"
    /\ UNCHANGED <<tmp, cmd, many_subs, raised, runs, fsAtStart, returned,
                   mergeHist, playerExit, played>>
    /\ UNCHANGED redactVars

\* if wordlist: subs = drop_words(subs, words)
DropWords ==
    /\ pc = "drop_words"
    /\ IF cmd.has_wordlist
       THEN LET d == drop_words(heap, subs, cmd.words)
            IN  heap' = d.heap /\ subs' = d.id
       ELSE UNCHANGED <<heap, subs>>
    /\ pc' = "drop_random_words"
    /\ UNCHANGED <<fs, tmp, cmd, many_subs, raised, outcome, runs, fsAtStart,
                   fetched, extractLog, writeLog, returned, mergeHist,
                   playerExit, played>>
    /\ UNCHANGED redactVars

\* if drop_rate: subs = drop_random_words(subs, (100 - drop_rate) / 100)
DropRandomWords ==
    /\ pc = "drop_random_words"
    /\ IF cmd.drop_rate # 0
       THEN \E draws \in [1..TotalMatches(heap[subs]) -> RandVals] :
               LET d == drop_random_words(heap, subs, 100 - cmd.drop_rate, draws)
               IN  heap' = d.heap /\ subs' = d.id
       ELSE UNCHANGED <<heap, subs>>
    /\ pc' = "play_enter"
    /\ UNCHANGED <<fs, tmp, cmd, many_subs, raised, outcome, runs, fsAtStart,
                   fetched, extractLog, writeLog, returned, mergeHist,
                   playerExit, played>>
    /\ UNCHANGED redactVars

\* ----------------------------------------------------- the merge command

\* merge_subs returns track for the language list: the first result of a
\* list is kept, and its calls are counted.
Returned(h, languages, track) ==
    IF languages \in DOMAIN h
    THEN [h EXCEPT ![languages].calls = @ + 1]
    ELSE [q \in DOMAIN h \cup {languages} |->
             IF q = languages THEN [first |-> track, calls |-> 1] ELSE h[q]]

\* merge is invoked with one language code or more.
MergeStart ==
    /\ \E languages \in LangLists :
          Begin([name |-> "merge", has_wordlist |-> FALSE, words |-> <<>>,
                 drop_rate |-> 0, languages |-> languages], "merge_subs")
    /\ UNCHANGED redactVars

\* merge_subs: if subs_path.exists(): return SSAFile.load(subs_path)
MergeCheck ==
    /\ pc = "merge_subs"
    /\ IF MergeCacheHit(fs, Video, cmd.languages)
       THEN LET track == SsaRead(fs[MergePath(Video, cmd.languages)])
            IN  /\ heap' = <<track>>
                /\ subs' = 1
                /\ returned' = <<track>>
                /\ mergeHist' = Returned(mergeHist, cmd.languages, track)
                /\ pc' = "play_enter"
       ELSE /\ pc' = "merge_get_subs"
            /\ UNCHANGED <<heap, subs, returned, mergeHist>>
    /\ UNCHANGED <<fs, tmp, cmd, many_subs, raised, outcome, runs, fsAtStart,
                   fetched, extractLog, writeLog, playerExit, played>>
    /\ UNCHANGED redactVars

\* many_subs = [get_subs(video, language) for language in languages]: the
\* next language of the list.
MergeGetSubs ==
    /\ pc = "merge_get_subs"
    /\ LET i == Len(many_subs) + 1
           language == cmd.languages[i]
       IN  \E ok \in BOOLEAN :
              LET r == get_subs(fs, Video, language, ok)
              IN  /\ Fetch(r, language)
                  /\ many_subs' = IF r.raised THEN many_subs
                                  ELSE Append(many_subs, Len(heap) + 1)
                  /\ pc' = IF r.raised THEN "idle"
                           ELSE IF i = Len(cmd.languages) THEN "merge_save"
                           ELSE pc
    /\ UNCHANGED <<tmp, cmd, subs, raised, runs, fsAtStart, returned,
                   mergeHist, playerExit, played>>
    /\ UNCHANGED redactVars

\* The first track is extended by the others, sorted and saved, and returned.
MergeSave ==
    /\ pc = "merge_save"
    /\ LET merged_subs == many_subs[1]
           events == Sort(Extend(heap, many_subs, Len(many_subs)))
           path == MergePath(Video, cmd.languages)
       IN  /\ heap' = [heap EXCEPT ![merged_subs] = events]
           /\ fs' = Save(fs, path, events)
           /\ writeLog' = Append(writeLog, [path |-> path, by |-> "merge_subs"])
           /\ subs' = merged_subs
           /\ returned' = <<events>>
           /\ mergeHist' = Returned(mergeHist, cmd.languages, events)
    /\ pc' = "play_enter"
    /\ UNCHANGED <<tmp, cmd, many_subs, raised, outcome, runs, fsAtStart,
                   fetched, extractLog, playerExit, played>>
    /\ UNCHANGED redactVars

\* -------------------------------------------------------- play_with_subs

\* with tempfile.TemporaryDirectory() as subs_dir:
PlayEnter ==
    /\ pc = "play_enter"
    /\ tmp' = [dir |-> TRUE, file |-> <<>>]
    /\ pc' = "play_save"
    /\ UNCHANGED <<fs, heap, cmd, subs, many_subs, raised, outcome, runs,
                   fsAtStart, fetched, extractLog, writeLog, returned,
                   mergeHist, playerExit, played>>
    /\ UNCHANGED redactVars

\* subs.save(subs_path): the file is written, or the write fails.
PlaySave ==
    /\ pc = "play_save"
    /\ \E ok \in BOOLEAN :
          IF ok
          THEN /\ tmp' = [tmp EXCEPT !.file = <<SsaWrite(heap[subs])>>]
               /\ pc' = "play_get_vlc"
               /\ UNCHANGED raised
          ELSE /\ raised' = "OSError"
               /\ pc' = "play_exit"
               /\ UNCHANGED tmp
    /\ UNCHANGED <<fs, heap, cmd, subs, many_subs, outcome, runs, fsAtStart,
                   fetched, extractLog, writeLog, returned, mergeHist,
                   playerExit, played>>
    /\ UNCHANGED redactVars

\* vlc.get_vlc(): the player is found, or it is not.
PlayGetVlc ==
    /\ pc = "play_get_vlc"
    /\ \E found \in BOOLEAN :
          IF found
          THEN pc' = "play_check_call" /\ UNCHANGED raised
          ELSE pc' = "play_exit" /\ raised' = "VlcNotFound"
    /\ UNCHANGED <<fs, tmp, heap, cmd, subs, many_subs, outcome, runs,
                   fsAtStart, fetched, extractLog, writeLog, returned,
                   mergeHist, playerExit, played>>
    /\ UNCHANGED redactVars

\* subprocess.check_call(cmd): the player shows the file and exits.
PlayCheckCall ==
    /\ pc = "play_check_call"
    /\ \E code \in ExitCodes :
          /\ playerExit' = Append(playerExit, code)
          /\ raised' = check_call(code)
    /\ played' = tmp.file
    /\ pc' = "play_exit"
    /\ UNCHANGED <<fs, tmp, heap, cmd, subs, many_subs, outcome, runs,
                   fsAtStart, fetched, extractLog, writeLog, returned,
                   mergeHist>>
    /\ UNCHANGED redactVars

\* The with block is left, by return or by exception, and the command ends.
PlayExit ==
    /\ pc = "play_exit"
    /\ tmp' = TemporaryDirectoryExit(tmp, raised)
    /\ outcome' = IF raised = "none" THEN "ok" ELSE raised
    /\ pc' = "idle"
    /\ UNCHANGED <<fs, heap, cmd, subs, many_subs, raised, runs, fsAtStart,
                   fetched, extractLog, writeLog, returned, mergeHist,
                   playerExit, played>>
    /\ UNCHANGED redactVars

Next ==
    \/ DropStart
    \/ DropGetSubs
    \/ DropWords
    \/ DropRandomWords
    \/ MergeStart
    \/ MergeCheck
    \/ MergeGetSubs
    \/ MergeSave
    \/ PlayEnter
    \/ PlaySave
    \/ PlayGetVlc
    \/ PlayCheckCall
    \/ PlayExit

Spec == Init /\ [][Next]_vars

\* ------------------------------------------------------ redaction alone

\* One call of drop_words on a track of one event, for every text and
\* wordlist.
DropWordsCall ==
    /\ call.op = "none"
    /\ \E text \in TextsUpTo(MaxLen), words \in WordListsUpTo(MaxWords) :
          LET track == <<Event(10, text)>>
              d == drop_words(<<track>>, 1, words)
          IN  /\ call' = [op |-> "drop_words", words |-> words,
                          keepPct |-> 0, draws |-> <<>>]
              /\ subsIn' = track
              /\ subsOut' = d.heap[d.id]
    /\ UNCHANGED cmdVars

\* One call of drop_random_words on a track of one event, for every text,
\* keep ratio and sequence of values of random.random().
DropRandomWordsCall ==
    /\ call.op = "none"
    /\ \E text \in TextsUpTo(MaxLen), keepPct \in KeepPcts :
          LET track == <<Event(10, text)>>
          IN  \E draws \in [1..TotalMatches(track) -> RandVals] :
                 LET d == drop_random_words(<<track>>, 1, keepPct, draws)
                 IN  /\ call' = [op |-> "drop_random_words", words |-> <<>>,
                                 keepPct |-> keepPct, draws |-> draws]
                     /\ subsIn' = track
                     /\ subsOut' = d.heap[d.id]
    /\ UNCHANGED cmdVars

NextRedact ==
    \/ DropWordsCall
    \/ DropRandomWordsCall

SpecRedact == Init /\ [][NextRedact]_vars

\* ------------------------------------------------- what the claims state

\* The events of a track (or the lines of a file) as a multiset.
BagOfSeq(s) ==
    [e \in {s[i] : i \in DOMAIN s} |->
        Cardinality({i \in DOMAIN s : s[i] = e})]

\* Non-decreasing start times.
SortedByStart(track) ==
    \A i \in 1..(Len(track) - 1) : track[i].start <= track[i + 1].start

\* The command's invocations of the extraction facility for a language.
Attempts(language) ==
    Cardinality({k \in DOMAIN extractLog : extractLog[k].lang = language})

LanguagesOf(command) == {command.languages[i] : i \in DOMAIN command.languages}

\* merge_subs has returned in the running (or last) command.
MergeReturned == cmd.name = "merge" /\ returned # <<>>

\* C4: mergeSubs(video, [a, b]) returns a track whose events are exactly the
\* multiset union of the events getSubs(video, a) and getSubs(video, b)
\* return, in non-decreasing order of start time.
C4_MergeIsSortedUnion ==
    (MergeReturned /\ Len(cmd.languages) = 2) =>
        LET a == get_subs(fs, Video, cmd.languages[1], TRUE).track
            b == get_subs(fs, Video, cmd.languages[2], TRUE).track
        IN  /\ BagOfSeq(returned[1]) = BagOfSeq(a) (+) BagOfSeq(b)
            /\ SortedByStart(returned[1])
            /\ fetched # <<>> =>
                  /\ Len(fetched) = 2
                  /\ BagOfSeq(returned[1])
                        = BagOfSeq(fetched[1]) (+) BagOfSeq(fetched[2])

\* C4's case: the two languages are fetched and merged, and the merged
\* track interleaves them.
C4_Witness ==
    /\ MergeReturned
    /\ cmd.languages = <<"eng", "fre">>
    /\ Len(fetched) = 2
    /\ Len(returned[1]) = 4
    /\ returned[1] # fetched[1] \o fetched[2]

\* C5: once the merge sidecar of a language list exists, a call of mergeSubs
\* with that list returns the track the first call returned, invokes the
\* extraction facility zero times and writes no sidecar file.
C5_MergeCacheHitIsIdempotent ==
    (MergeReturned /\ MergePath(Video, cmd.languages) \in fsAtStart) =>
        /\ cmd.languages \in DOMAIN mergeHist
        /\ returned[1] = mergeHist[cmd.languages].first
        /\ extractLog = <<>>
        /\ writeLog = <<>>
        /\ DOMAIN fs = fsAtStart

\* C5's case: a further call of a two-language merge whose sidecar an
\* earlier call wrote.
C5_Witness ==
    /\ MergeReturned
    /\ Len(cmd.languages) = 2
    /\ MergePath(Video, cmd.languages) \in fsAtStart
    /\ cmd.languages \in DOMAIN mergeHist
    /\ mergeHist[cmd.languages].calls >= 2
    /\ Len(returned[1]) = 4

\* C6: in a run of drop, with any options, the track get_subs returned is
\* not mutated by the redaction, and the sidecar <video>.ssa holds the
\* un-redacted original text, whether this run wrote it or found it.
C6_DropNeverPersistsRedaction ==
    (cmd.name = "drop" /\ fetched # <<>>) =>
        /\ heap[1] = fetched[1]
        /\ SubsPath(Video, NoLang) \in DOMAIN fs
        /\ fs[SubsPath(Video, NoLang)] = Embedded(NoLang)

\* C6's case: a drop with a wordlist and a rate has played a redacted track
\* over a sidecar that an earlier run wrote.
C6_Witness ==
    /\ cmd.name = "drop"
    /\ cmd.has_wordlist
    /\ cmd.drop_rate # 0
    /\ pc = "idle"
    /\ outcome = "ok"
    /\ SubsPath(Video, NoLang) \in fsAtStart
    /\ played # <<>>
    /\ played[1] # fs[SubsPath(Video, NoLang)]

\* C7: when mergeSubs is called with no merge sidecar present, extraction
\* is invoked exactly once for each requested language whose sidecar is
\* missing and never for one whose sidecar is present; on return every
\* per-language sidecar and the merge sidecar exist; and merge_subs writes
\* the merge sidecar only after all per-language tracks have been obtained.
C7_MergeMissExtractsOncePerMissing ==
    (cmd.name = "merge" /\ MergePath(Video, cmd.languages) \notin fsAtStart) =>
        /\ \A l \in Langs :
              Attempts(l) <= IF /\ l \in LanguagesOf(cmd)
                                /\ SubsPath(Video, l) \notin fsAtStart
                             THEN 1 ELSE 0
        /\ \A k \in DOMAIN writeLog :
              writeLog[k].by = "merge_subs" =>
                  /\ k = Len(writeLog)
                  /\ Len(fetched) = Len(cmd.languages)
        /\ MergePath(Video, cmd.languages) \in DOMAIN fs =>
              Len(fetched) = Len(cmd.languages)
        /\ returned # <<>> =>
              /\ \A l \in LanguagesOf(cmd) :
                    /\ Attempts(l) = IF SubsPath(Video, l) \notin fsAtStart
                                     THEN 1 ELSE 0
                    /\ SubsPath(Video, l) \in DOMAIN fs
              /\ MergePath(Video, cmd.languages) \in DOMAIN fs
              /\ writeLog[Len(writeLog)].by = "merge_subs"

\* C7's case: merge eng fre with no cache at all: two extractions and the
\* three sidecar files.
C7_Witness ==
    /\ MergeReturned
    /\ cmd.languages = <<"eng", "fre">>
    /\ fsAtStart = {}
    /\ Len(extractLog) = 2
    /\ DOMAIN fs = {"movie.eng.ssa", "movie.fre.ssa", "movie.eng_fre.ssa"}

\* C8: the temporary subtitle file and its directory exist only inside
\* play: after play ends, on every exit path, they are gone; and a player
\* that exits nonzero ends the command with that failure.
C8_PlayCleansUpAndReportsFailure ==
    /\ pc \notin {"play_save", "play_get_vlc", "play_check_call", "play_exit"}
          => tmp = [dir |-> FALSE, file |-> <<>>]
    /\ (pc = "idle" /\ \E k \in DOMAIN playerExit : playerExit[k] # 0)
          => outcome = "CalledProcessError"

\* C8's case: the player has exited nonzero and play has ended.
C8_Witness ==
    /\ pc = "idle"
    /\ playerExit = <<1>>
    /\ played # <<>>
    /\ outcome = "CalledProcessError"
    /\ ~tmp.dir

\* C9: when getSubs misses the cache and the extraction fails, the command
\* ends with that failure after exactly one extraction attempt for the
\* requested language, with no attempt after it, no sidecar file for that
\* language, and no player launched.
C9_ExtractionFailurePropagates ==
    (pc = "idle" /\ outcome = "ExtractionFailure") =>
        LET n == Len(extractLog)
            requested == IF cmd.name = "drop" THEN NoLang
                         ELSE cmd.languages[Len(fetched) + 1]
        IN  /\ n >= 1
            /\ ~extractLog[n].ok
            /\ extractLog[n].lang = requested
            /\ Attempts(requested) = 1
            /\ \A k \in 1..(n - 1) : extractLog[k].ok
            /\ SubsPath(Video, requested) \notin DOMAIN fs
            /\ playerExit = <<>>
            /\ played = <<>>
            /\ ~tmp.dir

\* C9's case: merge eng fre, where the second extraction fails.
C9_Witness ==
    /\ pc = "idle"
    /\ outcome = "ExtractionFailure"
    /\ cmd.languages = <<"eng", "fre">>
    /\ extractLog = <<[lang |-> "eng", ok |-> TRUE],
                      [lang |-> "fre", ok |-> FALSE]>>

\* C10: after a mergeSubs call over any language list, the per-language
\* sidecar of every language of the list holds exactly the events of that
\* language, though the first language's track object was extended in place.
C10_LanguageSidecarsKeepOwnEvents ==
    MergeReturned =>
        \A l \in LanguagesOf(cmd) :
            /\ SubsPath(Video, l) \in DOMAIN fs
            /\ BagOfSeq(fs[SubsPath(Video, l)]) = BagOfSeq(Embedded(l))

\* C10's case: the first language's object holds the merged events, and
\* its sidecar holds its own.
C10_Witness ==
    /\ MergeReturned
    /\ cmd.languages = <<"eng", "fre">>
    /\ many_subs # <<>>
    /\ Len(heap[many_subs[1]]) = 4
    /\ Len(fs[SubsPath(Video, "eng")]) = 2

\* ------------------------------------- what the claims state of redaction

\* The text passed to the redaction call, and the text it returned.
TextIn == subsIn[1].text
TextOut == subsOut[1].text

\* A whole-word occurrence of entry w at index i of t: the entry, ignoring
\* case, with no word character just before it and none just after it.
WholeWordAt(t, w, i) ==
    /\ Len(w) > 0
    /\ i >= 1
    /\ MatchesAt(t, w, i)
    /\ ~WordAt(t, i - 1)
    /\ ~WordAt(t, i + Len(w))

\* Index j of t lies in a whole-word occurrence of an entry of ws.
InWholeWord(t, ws, j) ==
    \E k \in DOMAIN ws, i \in 1..j :
        WholeWordAt(t, ws[k], i) /\ j <= i + Len(ws[k]) - 1

\* An occurrence of w at i that is only a part of a longer word: w is made
\* of word characters and a word character adjoins the occurrence.
InsideLongerWord(t, w, i) ==
    /\ Len(w) > 0
    /\ \A k \in DOMAIN w : IsWordChar(w[k])
    /\ MatchesAt(t, w, i)
    /\ (WordAt(t, i - 1) \/ WordAt(t, i + Len(w)))

\* C1: for every wordlist and every text that does not begin with "{",
\* drop_words replaces every case-insensitive whole-word occurrence of every
\* entry, taken literally, with as many underscores, and leaves unchanged
\* every occurrence that is only a part of a longer word.  (Stated of the
\* entries that begin with a word character, which decide it.)
C1_ExactRedactsEveryWholeWord ==
    (call.op = "drop_words" /\ should_replace(TextIn)) =>
        /\ Len(TextOut) = Len(TextIn)
        /\ \A k \in DOMAIN call.words, i \in 1..Len(TextIn) :
              (WholeWordAt(TextIn, call.words[k], i)
                  /\ IsWordChar(call.words[k][1])) =>
                  \A j \in i..(i + Len(call.words[k]) - 1) : TextOut[j] = "_"
        /\ \A k \in DOMAIN call.words, i \in 1..Len(TextIn) :
              InsideLongerWord(TextIn, call.words[k], i) =>
                  \A j \in i..(i + Len(call.words[k]) - 1) :
                      ~InWholeWord(TextIn, call.words, j)
                          => TextOut[j] = TextIn[j]

\* Index j of t lies in a control sequence: from a "{" to the next "}".
InControl(t, j) ==
    \E i \in 1..j, e \in j..Len(t) :
        /\ i < e
        /\ t[i] = "{"
        /\ t[e] = "}"
        /\ \A m \in (i + 1)..(e - 1) : t[m] # "}"

\* C2: under drop_words and under drop_random_words, no character of a
\* control sequence {...} of an event's text is changed, wherever the
\* sequence stands in the text.
C2_ControlSequencesUntouched ==
    call.op \in {"drop_words", "drop_random_words"} =>
        /\ Len(TextOut) = Len(TextIn)
        /\ \A j \in 1..Len(TextIn) :
              InControl(TextIn, j) => TextOut[j] = TextIn[j]

\* An escape marker that precedes a token starts at index p of t: a
\* backslash, one word character, then the first letter of a token.
MarkerAt(t, p) ==
    /\ p >= 1
    /\ p + 2 <= Len(t)
    /\ t[p] = "\\"
    /\ IsWordChar(t[p + 1])
    /\ IsWordChar(t[p + 2])

\* C3: with keep ratio 0.0, whatever random() returns in [0, 1), every
\* escape marker that precedes a token is kept as it is and every other
\* alphanumeric character of the text becomes an underscore (texts that
\* begin with "{" apart, which are returned as they are).
C3_KeepNothingRedactsEveryToken ==
    (call.op = "drop_random_words" /\ call.keepPct = 0
        /\ should_replace(TextIn)) =>
        /\ Len(TextOut) = Len(TextIn)
        /\ \A j \in 1..Len(TextIn) :
              IF MarkerAt(TextIn, j) \/ MarkerAt(TextIn, j - 1)
              THEN TextOut[j] = TextIn[j]
              ELSE IsWordChar(TextIn[j]) => TextOut[j] = "_"

====
